---- MODULE Spec2Model ----
(***************************************************************************)
(* PackHelper: a compile-time type list (packhelp::Pack) and the traits    *)
(* IsPack, Size, At, Has, Find and Unique over it.                         *)
(*                                                                         *)
(* A translation unit names one type (a Pack<...>, another variadic        *)
(* template, or a plain type) and instantiates traits on it.  Every trait  *)
(* is a class template whose partial specialisations are the case rules;   *)
(* a trait that inherits from a smaller instance of itself is a recursive  *)
(* step.  The state records the named type, the trait instantiated last,   *)
(* its arguments and what reading its ::Value / ::Type member gave.        *)
(***************************************************************************)
EXTENDS Integers, Sequences, FiniteSets, TLC

(***************************************************************************)
(* Bounds of the model.                                                    *)
(***************************************************************************)
\* width of size_t in bits (the real width is 32 or 64)
IndexBits == 3
\* longest template parameter pack a client names
MaxLen == 4
\* longest pack of the long-pack specification, which reaches the largest
\* Size the index type allows
MaxLongLen == 7

Modulus == 2 ^ IndexBits

\* size_t arithmetic: every size_t expression is reduced modulo 2^IndexBits
SizeT(n) == n % Modulus

\* Traits.h:36  constexpr size_t NotFound = static_cast<size_t>(-1);
NotFound == SizeT(0 - 1)

Indices == 0 .. (Modulus - 1)

(***************************************************************************)
(* Type tokens.  A token is a base type and a reference qualifier; int,    *)
(* int& and int&& are three different types.                               *)
(***************************************************************************)
TypeToken(b, r) == [base |-> b, ref |-> r]

t_int    == TypeToken("int", "")
t_intL   == TypeToken("int", "&")
t_intR   == TypeToken("int", "&&")
t_char   == TypeToken("char", "")
t_void   == TypeToken("void", "")

\* the types a client puts in a pack, and the types a client asks about
PackTokens  == {t_int, t_intL, t_intR, t_char}
QueryTokens == PackTokens \cup {t_void}

\* placeholder in records for "no type was produced"
NoType == TypeToken("", "")

\* faulty variant: compares the types with their reference qualifier
\* stripped (std::is_same of the std::remove_reference_t types)
same_as_decayed(Type, Head_t) == Type.base = Head_t.base

\* std::same_as<Type, Head>: exact identity of the two types
same_as(Type, Head_t) == Type.base = Head_t.base /\ Type.ref = Head_t.ref

(***************************************************************************)
(* Type terms a client can pass as the "Pack" argument of a trait.         *)
(***************************************************************************)
RECURSIVE ListsUpTo(_)
ListsUpTo(n) ==
    IF n = 0 THEN {<<>>}
    ELSE LET shorter == ListsUpTo(n - 1)
         IN  shorter \cup {<<t>> \o l : t \in PackTokens,
                                        l \in {s \in shorter : Len(s) = n - 1}}

\* a parameter pack has at most as many elements as size_t can count
TokenLists == {l \in ListsUpTo(MaxLen) : Len(l) <= NotFound}

\* core/Pack.h:24-37  template<typename... Types> struct Pack
Pack(PackTypes) == [tmpl |-> "Pack", args |-> PackTypes]

\* testcases/TestCases.h:50-53  template<typename... Types> struct NotAPack
NotAPack(PackTypes) == [tmpl |-> "NotAPack", args |-> PackTypes]

\* a type that is no template specialisation (int, int&, ...)
Plain(t) == [tmpl |-> "plain", args |-> <<t>>]

Subjects == {Pack(l) : l \in TokenLists}
              \cup {NotAPack(l) : l \in TokenLists}
              \cup {Plain(t) : t \in QueryTokens}

(***************************************************************************)
(* Outcomes of reading a trait's member.                                   *)
(*   kind "size_t": Value holds,  kind "bool": Bool holds,                 *)
(*   kind "Type":   Type holds,   kind "error": the build fails, errors    *)
(*   is the set of diagnostics:                                            *)
(*     "static_assert"  a static_assert of the library fired               *)
(*     "no_Type"        the instantiated struct has no member Type         *)
(*     "incomplete"     the selected template is declared, never defined   *)
(***************************************************************************)
Outcome(k, v, b, t, e) == [kind |-> k, Value |-> v, Bool |-> b, Type |-> t, errors |-> e]

ValueOf(n)   == Outcome("size_t", n, FALSE, NoType, {})
BoolOf(b)    == Outcome("bool", 0, b, NoType, {})
TypeOf(t)    == Outcome("Type", 0, FALSE, t, {})
ErrorOf(e)   == Outcome("error", 0, FALSE, NoType, e)
NoOutcome    == Outcome("none", 0, FALSE, NoType, {})

(***************************************************************************)
(* IsPack (Traits.h:47-67).  The partial specialisation for                *)
(* Pack<PackTypes...> gives true, the primary template gives false.        *)
(***************************************************************************)
\* faulty variant: a specialisation on any variadic template
\* (template<template<typename...> class T, typename... Ts> IsPack<T<Ts...>>)
IsPack_any_variadic(P) ==
    IF P.tmpl # "plain" THEN BoolOf(TRUE) ELSE BoolOf(FALSE)

IsPack(P) ==
    IF P.tmpl = "Pack" THEN BoolOf(TRUE) ELSE BoolOf(FALSE)

(***************************************************************************)
(* Size and Size_native (Traits.h:78-98).                                  *)
(***************************************************************************)
\* faulty variant: counts the pack after its first type, sizeof...(Tail)
Size_native_tail(PackTypes) ==
    ValueOf(IF PackTypes = <<>> THEN 0 ELSE SizeT(Len(Tail(PackTypes))))

\* sizeof...(PackTypes), a size_t
Size_native(PackTypes) == ValueOf(SizeT(Len(PackTypes)))

\* faulty variant: forwards the Pack itself as the one element of the list,
\* Size<Pack<PackTypes...>> : Size_native<Pack<PackTypes...>>
Size_whole_pack(P) ==
    IF P.tmpl = "Pack" THEN Size_native(<<P>>) ELSE ErrorOf({"incomplete"})

\* Size<Pack<PackTypes...>> : Size_native<PackTypes...>; the primary
\* template is only declared
Size(P) ==
    IF P.tmpl = "Pack" THEN Size_native(P.args) ELSE ErrorOf({"incomplete"})

(***************************************************************************)
(* At and At_native (Traits.h:124-156).                                    *)
(***************************************************************************)
\* which partial specialisation of At_native the compiler selects; with
\* Index 0 and a non-empty pack both the "found" and the "recursive"
\* specialisation match and the more specialised "found" is taken
\* faulty variant: the index-zero specialisation is not preferred, the
\* general <Index, Head, Tail...> one is taken for every non-empty pack
At_native_rule_general(Index, PackTypes) ==
    CASE PackTypes = <<>> -> "out of bounds"
      [] PackTypes # <<>> -> "recursive"

At_native_rule(Index, PackTypes) ==
    CASE PackTypes = <<>> -> "out of bounds"
      [] PackTypes # <<>> /\ Index = 0 -> "found"
      [] PackTypes # <<>> /\ Index # 0 -> "recursive"

\* the chain of instantiations At_native<Index, PackTypes...> inherits
\* through, outermost first
RECURSIVE At_native_chain(_, _)
At_native_chain(Index, PackTypes) ==
    LET rule == At_native_rule(Index, PackTypes)
        this == [Index |-> Index, PackTypes |-> PackTypes, rule |-> rule]
    IN  IF rule = "recursive"
        THEN <<this>> \o At_native_chain(SizeT(Index - 1), Tail(PackTypes))
        ELSE <<this>>

\* faulty variant: the recursive case also declares using Type = Head, which
\* hides the inherited Type
At_native_outer_head(Index, PackTypes) ==
    LET chain == At_native_chain(Index, PackTypes)
        base  == chain[Len(chain)]
    IN  IF base.rule = "found"
        THEN TypeOf(Head(PackTypes))
        ELSE IF base.Index = NotFound
             THEN ErrorOf({"no_Type"})
             ELSE ErrorOf({"static_assert", "no_Type"})

\* faulty variant: the out-of-bounds base case gives the sentinel type void
\* (as Pack<>::Type of include/Pack.h does) and asserts nothing
At_native_void_sentinel(Index, PackTypes) ==
    LET chain == At_native_chain(Index, PackTypes)
        base  == chain[Len(chain)]
    IN  IF base.rule = "found"
        THEN TypeOf(Head(base.PackTypes))
        ELSE TypeOf(t_void)

\* At_native<Index, PackTypes...>::Type
At_native(Index, PackTypes) ==
    LET chain == At_native_chain(Index, PackTypes)
        base  == chain[Len(chain)]
    IN  IF base.rule = "found"
        THEN TypeOf(Head(base.PackTypes))
        ELSE \* static_assert(Index == NotFound, ...) and no member Type
             IF base.Index = NotFound
             THEN ErrorOf({"no_Type"})
             ELSE ErrorOf({"static_assert", "no_Type"})

\* At<Index, Pack<PackTypes...>> : At_native<Index, PackTypes...>
At(Index, P) ==
    IF P.tmpl = "Pack" THEN At_native(Index, P.args) ELSE ErrorOf({"incomplete"})

(***************************************************************************)
(* Has and Has_native (Traits.h:184-218).                                  *)
(***************************************************************************)
\* which partial specialisation of Has_native is selected; the two
\* non-empty ones carry the constraints same_as / !same_as
Has_native_rule(Type, PackTypes) ==
    CASE PackTypes = <<>> -> "not found"
      [] PackTypes # <<>> /\ same_as(Type, Head(PackTypes)) -> "found"
      [] PackTypes # <<>> /\ ~same_as(Type, Head(PackTypes)) -> "recursive"

\* faulty variant: the found case inherits from Has_native<Type, Tail...>
\* as the recursive case does, so the descent runs to the end of the pack
RECURSIVE Has_native_chain_to_end(_, _)
Has_native_chain_to_end(Type, PackTypes) ==
    LET rule == Has_native_rule(Type, PackTypes)
        this == [Type |-> Type, PackTypes |-> PackTypes, rule |-> rule]
    IN  IF PackTypes # <<>>
        THEN <<this>> \o Has_native_chain_to_end(Type, Tail(PackTypes))
        ELSE <<this>>

\* the chain of instantiations Has_native<Type, PackTypes...> inherits
\* through, outermost first
RECURSIVE Has_native_chain(_, _)
Has_native_chain(Type, PackTypes) ==
    LET rule == Has_native_rule(Type, PackTypes)
        this == [Type |-> Type, PackTypes |-> PackTypes, rule |-> rule]
    IN  IF rule = "recursive"
        THEN <<this>> \o Has_native_chain(Type, Tail(PackTypes))
        ELSE <<this>>

\* faulty variant: no specialisation for the empty list (as At_native_s of
\* the earlier snapshot), so an absent Type ends in the undefined primary
\* template
Has_native_undefined_base(Type, PackTypes) ==
    LET chain == Has_native_chain(Type, PackTypes)
        base  == chain[Len(chain)]
    IN  IF base.rule = "found" THEN BoolOf(TRUE) ELSE ErrorOf({"incomplete"})

\* Has_native<Type, PackTypes...>::Value
Has_native(Type, PackTypes) ==
    LET chain == Has_native_chain(Type, PackTypes)
        base  == chain[Len(chain)]
    IN  IF base.rule = "found" THEN BoolOf(TRUE) ELSE BoolOf(FALSE)

\* Has<Type, Pack<PackTypes...>> : Has_native<Type, PackTypes...>
Has(Type, P) ==
    IF P.tmpl = "Pack" THEN Has_native(Type, P.args) ELSE ErrorOf({"incomplete"})

(***************************************************************************)
(* Find and Find_native (Traits.h:246-290).                                *)
(***************************************************************************)
_Find_native_rule(Counter, Type, PackTypes) ==
    CASE PackTypes = <<>> -> "not found"
      [] PackTypes # <<>> /\ same_as(Type, Head(PackTypes)) -> "found"
      [] PackTypes # <<>> /\ ~same_as(Type, Head(PackTypes)) -> "recursive"

\* faulty variant: Counter is of a type one bit narrower than size_t
RECURSIVE _Find_native_chain_narrow(_, _, _)
_Find_native_chain_narrow(Counter, Type, PackTypes) ==
    LET rule == _Find_native_rule(Counter, Type, PackTypes)
        this == [Counter |-> Counter, Type |-> Type,
                 PackTypes |-> PackTypes, rule |-> rule]
    IN  IF rule = "recursive"
        THEN <<this>> \o _Find_native_chain_narrow((Counter + 1) % (Modulus \div 2),
                                                   Type, Tail(PackTypes))
        ELSE <<this>>

\* the chain of instantiations internal::_Find_native<Counter, Type,
\* PackTypes...> inherits through, outermost first
RECURSIVE _Find_native_chain(_, _, _)
_Find_native_chain(Counter, Type, PackTypes) ==
    LET rule == _Find_native_rule(Counter, Type, PackTypes)
        this == [Counter |-> Counter, Type |-> Type,
                 PackTypes |-> PackTypes, rule |-> rule]
    IN  IF rule = "recursive"
        THEN <<this>> \o _Find_native_chain(SizeT(Counter + 1), Type, Tail(PackTypes))
        ELSE <<this>>

\* faulty variant: the not-found base case gives its Counter (the index
\* one past the end) where the code gives NotFound
_Find_native_end(Counter, Type, PackTypes) ==
    LET chain == _Find_native_chain(Counter, Type, PackTypes)
        base  == chain[Len(chain)]
    IN  ValueOf(base.Counter)

\* internal::_Find_native<Counter, Type, PackTypes...>::Value
_Find_native(Counter, Type, PackTypes) ==
    LET chain == _Find_native_chain(Counter, Type, PackTypes)
        base  == chain[Len(chain)]
    IN  IF base.rule = "found" THEN ValueOf(base.Counter) ELSE ValueOf(NotFound)

\* faulty variant: the running counter starts at 1
Find_native_from_one(Type, PackTypes) == _Find_native(1, Type, PackTypes)

\* using Find_native = internal::_Find_native<static_cast<size_t>(0), ...>
Find_native(Type, PackTypes) == _Find_native(0, Type, PackTypes)

\* Find<Type, Pack<PackTypes...>> : Find_native<Type, PackTypes...>
Find(Type, P) ==
    IF P.tmpl = "Pack" THEN Find_native(Type, P.args) ELSE ErrorOf({"incomplete"})

(***************************************************************************)
(* Unique and Unique_native (Traits.h:317-360).                            *)
(***************************************************************************)
\* faulty variant: the two specialisations on <TypeA, TypeB, Rest...> lose
\* their constraints and the recursive one is taken for every pair
Unique_native_rule_unconstrained(PackTypes) ==
    CASE Len(PackTypes) = 0 -> "unique (empty)"
      [] Len(PackTypes) = 1 -> "unique (single)"
      [] Len(PackTypes) >= 2 -> "recursive"

Unique_native_rule(PackTypes) ==
    CASE Len(PackTypes) = 0 -> "unique (empty)"
      [] Len(PackTypes) = 1 -> "unique (single)"
      [] Len(PackTypes) >= 2 /\ same_as(PackTypes[1], PackTypes[2]) -> "not unique"
      [] Len(PackTypes) >= 2 /\ ~same_as(PackTypes[1], PackTypes[2]) -> "recursive"

\* Rest... of <TypeA, TypeB, Rest...>
Rest(PackTypes) == Tail(Tail(PackTypes))

\* faulty variant: the recursive case inherits from
\* Unique_native<TypeB, Rest...> alone, so only neighbours are compared
RECURSIVE Unique_neighbours_Value(_)
Unique_neighbours_Value(PackTypes) ==
    LET rule == Unique_native_rule(PackTypes)
    IN  CASE rule \in {"unique (empty)", "unique (single)"} -> TRUE
          [] rule = "not unique" -> FALSE
          [] rule = "recursive" ->
                Unique_neighbours_Value(<<PackTypes[2]>> \o Rest(PackTypes))

\* faulty variant: the recursive case inherits from
\* Unique_native<TypeA, Rest...> alone, so only TypeA is compared with the rest
RECURSIVE Unique_first_Value(_)
Unique_first_Value(PackTypes) ==
    LET rule == Unique_native_rule(PackTypes)
    IN  CASE rule \in {"unique (empty)", "unique (single)"} -> TRUE
          [] rule = "not unique" -> FALSE
          [] rule = "recursive" ->
                Unique_first_Value(<<PackTypes[1]>> \o Rest(PackTypes))

\* Unique_native<PackTypes...>::Value as a boolean; the recursive case
\* inherits from Unique_native<TypeA, Rest...> and Unique_native<TypeB, Rest...>
RECURSIVE Unique_native_Value(_)
Unique_native_Value(PackTypes) ==
    LET rule == Unique_native_rule(PackTypes)
    IN  CASE rule \in {"unique (empty)", "unique (single)"} -> TRUE
          [] rule = "not unique" -> FALSE
          [] rule = "recursive" ->
                Unique_native_Value(<<PackTypes[1]>> \o Rest(PackTypes))
                /\ Unique_native_Value(<<PackTypes[2]>> \o Rest(PackTypes))

Unique_native(PackTypes) == BoolOf(Unique_native_Value(PackTypes))

\* Unique<Pack<PackTypes...>> : Unique_native<PackTypes...>
Unique(P) ==
    IF P.tmpl = "Pack" THEN Unique_native(P.args) ELSE ErrorOf({"incomplete"})

(***************************************************************************)
(* The earlier snapshot of the library (include/Pack.h and                 *)
(* include/PackAlgorithms.h): At_s / At_native_s.                          *)
(***************************************************************************)
\* include/Pack.h:65-93  Pack<>::Size = 0, Pack<T, R...>::Size = sizeof...(R) + 1
Pack_Size(Ts) == IF Ts = <<>> THEN 0 ELSE SizeT(Len(Tail(Ts)) + 1)

\* At_native_s has no specialisation for an empty list: the primary
\* template, declared and never defined, is what an empty list selects
At_native_s_rule(Index, List_ts) ==
    CASE List_ts = <<>> -> "undefined"
      [] List_ts # <<>> /\ Index = 0 -> "index zero"
      [] List_ts # <<>> /\ Index # 0 -> "recursive"

RECURSIVE At_native_s_chain(_, _)
At_native_s_chain(Index, List_ts) ==
    LET rule == At_native_s_rule(Index, List_ts)
        this == [Index |-> Index, List_ts |-> List_ts, rule |-> rule,
                 \* static_assert(Index < Pack<Head_t, Tail_ts...>::Size, ...)
                 asserted |-> rule = "recursive",
                 holds |-> Index < Pack_Size(List_ts)]
    IN  IF rule = "recursive"
        THEN <<this>> \o At_native_s_chain(SizeT(Index - 1), Tail(List_ts))
        ELSE <<this>>

\* At_native_s<Index, List_ts...>::Type
At_native_s(Index, List_ts) ==
    LET chain == At_native_s_chain(Index, List_ts)
        base  == chain[Len(chain)]
        failed == {i \in 1 .. Len(chain) : chain[i].asserted /\ ~chain[i].holds}
    IN  IF base.rule = "index zero" /\ failed = {}
        THEN TypeOf(Head(base.List_ts))
        ELSE ErrorOf((IF base.rule = "undefined" THEN {"incomplete"} ELSE {})
                     \cup (IF failed # {} THEN {"static_assert"} ELSE {}))

\* At_s<Index, Pack<List_ts...>> : At_native_s<Index, List_ts...>
At_s(Index, Pack_t) ==
    IF Pack_t.tmpl = "Pack" THEN At_native_s(Index, Pack_t.args)
                            ELSE ErrorOf({"incomplete"})

(***************************************************************************)
(* Which partial specialisations match an argument list, before the        *)
(* compiler picks among them: the pattern of each specialisation and its   *)
(* requires-clause, one by one.                                            *)
(***************************************************************************)
\* Traits.h:141-156
At_native_matches(Index, PackTypes) ==
    {r \in {"out of bounds", "found", "recursive"} :
        \/ r = "out of bounds" /\ Len(PackTypes) = 0         \* <Index>
        \/ r = "found" /\ Index = 0 /\ Len(PackTypes) >= 1   \* <0, Head, Tail...>
        \/ r = "recursive" /\ Len(PackTypes) >= 1}           \* <Index, Head, Tail...>

\* <0, Head, Tail...> is more specialised than <Index, Head, Tail...>
At_native_more_specialised(r, s) == r = "found" /\ s = "recursive"

\* Traits.h:201-218
Has_native_matches(Type, PackTypes) ==
    {r \in {"not found", "found", "recursive"} :
        \/ r = "not found" /\ Len(PackTypes) = 0
        \/ r = "found" /\ Len(PackTypes) >= 1 /\ same_as(Type, PackTypes[1])
        \/ r = "recursive" /\ Len(PackTypes) >= 1 /\ ~same_as(Type, PackTypes[1])}

\* Traits.h:271-289
_Find_native_matches(Counter, Type, PackTypes) ==
    {r \in {"not found", "found", "recursive"} :
        \/ r = "not found" /\ Len(PackTypes) = 0
        \/ r = "found" /\ Len(PackTypes) >= 1 /\ same_as(Type, PackTypes[1])
        \/ r = "recursive" /\ Len(PackTypes) >= 1 /\ ~same_as(Type, PackTypes[1])}

\* Traits.h:333-360
Unique_native_matches(PackTypes) ==
    {r \in {"unique (empty)", "unique (single)", "not unique", "recursive"} :
        \/ r = "unique (empty)" /\ Len(PackTypes) = 0
        \/ r = "unique (single)" /\ Len(PackTypes) = 1
        \/ r = "not unique" /\ Len(PackTypes) >= 2
                /\ same_as(PackTypes[1], PackTypes[2])
        \/ r = "recursive" /\ Len(PackTypes) >= 2
                /\ ~same_as(PackTypes[1], PackTypes[2])}

\* the argument lists Unique_native is instantiated on, through both bases
\* of the recursive case
RECURSIVE Unique_native_instances(_)
Unique_native_instances(PackTypes) ==
    IF Unique_native_rule(PackTypes) = "recursive"
    THEN {PackTypes}
           \cup Unique_native_instances(<<PackTypes[1]>> \o Rest(PackTypes))
           \cup Unique_native_instances(<<PackTypes[2]>> \o Rest(PackTypes))
    ELSE {PackTypes}

(***************************************************************************)
(* Where the out-of-bounds static_asserts sit.  In core/Traits.h the only  *)
(* one is in the empty base case of At_native (line 144); in the earlier   *)
(* snapshot every recursive step of At_native_s carries one.               *)
(***************************************************************************)
\* the steps (1 = outermost) of At_native's chain whose static_assert fails
At_native_failed(Index, PackTypes) ==
    LET chain == At_native_chain(Index, PackTypes)
    IN  {n \in 1 .. Len(chain) :
            chain[n].rule = "out of bounds" /\ chain[n].Index # NotFound}

\* the steps of At_native_s's chain whose static_assert fails
At_native_s_failed(Index, List_ts) ==
    LET chain == At_native_s_chain(Index, List_ts)
    IN  {n \in 1 .. Len(chain) : chain[n].asserted /\ ~chain[n].holds}

(***************************************************************************)
(* Members of Pack (core/Pack.h:27-37): Pack<> has none,                   *)
(* Pack<Head, Tail...> has Type = Head and Base = Pack<Tail...>.           *)
(***************************************************************************)
\* Pack<...>::Type
Pack_Type(P) ==
    IF P.args = <<>> THEN ErrorOf({"no_Type"}) ELSE TypeOf(Head(P.args))

\* faulty variant: using Base = Pack<Head, Tail...>, the Pack itself
Pack_Base_self(P) ==
    IF P.args = <<>> THEN ErrorOf({"no_Base"}) ELSE TypeOf(P)

\* Pack<...>::Base
Pack_Base(P) ==
    IF P.args = <<>> THEN ErrorOf({"no_Base"}) ELSE TypeOf(Pack(Tail(P.args)))

\* P::Base:: ... ::Base with n times Base; an error once a Base is missing
RECURSIVE Pack_Base_times(_, _)
Pack_Base_times(n, P) ==
    IF n = 0 THEN TypeOf(P)
    ELSE LET b == Pack_Base(P)
         IN  IF b.kind = "error" THEN b ELSE Pack_Base_times(n - 1, b.Type)

\* P::Base:: ... ::Base::Type with n times Base
Pack_Base_times_Type(n, P) ==
    LET p == Pack_Base_times(n, P)
    IN  IF p.kind = "error" THEN p ELSE Pack_Type(p.Type)

(***************************************************************************)
(* Members of Pack in the earlier snapshot (include/Pack.h:62-93):         *)
(* Pack<> has Type = void and Size; Pack<T, R...> has Type, Base,          *)
(* BaseType, TypeAt, PackAt and Size.                                      *)
(***************************************************************************)
\* Pack<...>::Type
Pack_s_Type(P) ==
    IF P.args = <<>> THEN TypeOf(t_void) ELSE TypeOf(Head(P.args))

\* Pack<...>::Base
Pack_s_Base(P) ==
    IF P.args = <<>> THEN ErrorOf({"no_Base"}) ELSE TypeOf(Pack(Tail(P.args)))

\* Pack<...>::BaseType = typename Base::Type
Pack_s_BaseType(P) ==
    IF P.args = <<>> THEN ErrorOf({"no_BaseType"})
                     ELSE Pack_s_Type(Pack(Tail(P.args)))

RECURSIVE Pack_s_Base_times(_, _)
Pack_s_Base_times(n, P) ==
    IF n = 0 THEN TypeOf(P)
    ELSE LET b == Pack_s_Base(P)
         IN  IF b.kind = "error" THEN b ELSE Pack_s_Base_times(n - 1, b.Type)

\* P::Base:: ... ::Base::Type with n times Base
Pack_s_Base_times_Type(n, P) ==
    LET p == Pack_s_Base_times(n, P)
    IN  IF p.kind = "error" THEN p ELSE Pack_s_Type(p.Type)

(***************************************************************************)
(* PackElement (include/Pack.h:39-58).                                     *)
(***************************************************************************)
PackElement_rule(N, Ts) ==
    CASE Ts = <<>> -> "empty pack"
      [] Ts # <<>> /\ N = 0 -> "index zero"
      [] Ts # <<>> /\ N # 0 -> "recursive"

\* the chain of instantiations PackElement<N, Pack<Ts...>> inherits through
RECURSIVE PackElement_chain(_, _)
PackElement_chain(N, Ts) ==
    LET rule == PackElement_rule(N, Ts)
        this == [N |-> N, Ts |-> Ts, rule |-> rule,
                 \* static_assert(N < Pack<T, R...>::Size, ...)
                 asserted |-> rule = "recursive",
                 holds |-> N < Pack_Size(Ts)]
    IN  IF rule = "recursive"
        THEN <<this>> \o PackElement_chain(SizeT(N - 1), Tail(Ts))
        ELSE <<this>>

\* the steps of PackElement's chain whose static_assert fails
PackElement_failed(N, Ts) ==
    LET chain == PackElement_chain(N, Ts)
    IN  {n \in 1 .. Len(chain) : chain[n].asserted /\ ~chain[n].holds}

\* what a failed lookup reports; member is the name that was read
PackElement_errors(N, Ts, member) ==
    LET chain == PackElement_chain(N, Ts)
        base  == chain[Len(chain)]
    IN  (IF base.rule = "empty pack" THEN {member} ELSE {})
        \cup (IF PackElement_failed(N, Ts) # {} THEN {"static_assert"} ELSE {})

\* PackElement<N, Pack<Ts...>>::CurrentType
PackElement_CurrentType(N, Ts) ==
    LET chain == PackElement_chain(N, Ts)
        base  == chain[Len(chain)]
        errs  == PackElement_errors(N, Ts, "no_CurrentType")
    IN  IF errs = {} THEN TypeOf(Head(base.Ts)) ELSE ErrorOf(errs)

\* PackElement<N, Pack<Ts...>>::CurrentPack
PackElement_CurrentPack(N, Ts) ==
    LET chain == PackElement_chain(N, Ts)
        base  == chain[Len(chain)]
        errs  == PackElement_errors(N, Ts, "no_CurrentPack")
    IN  IF errs = {} THEN TypeOf(Pack(base.Ts)) ELSE ErrorOf(errs)

\* Pack<T, R...>::TypeAt<N>; Pack<> has no such member
Pack_s_TypeAt(N, P) ==
    IF P.args = <<>> THEN ErrorOf({"no_TypeAt"})
                     ELSE PackElement_CurrentType(N, P.args)

\* Pack<T, R...>::PackAt<N>; Pack<> has no such member
Pack_s_PackAt(N, P) ==
    IF P.args = <<>> THEN ErrorOf({"no_PackAt"})
                     ELSE PackElement_CurrentPack(N, P.args)

(***************************************************************************)
(* One instantiation of a recursive trait, and the instantiations its      *)
(* recursive case names as base classes.                                   *)
(***************************************************************************)
\* q<Index, Type, PackTypes...>; Index also holds the Counter of
\* _Find_native, and the arguments a trait does not take are 0 / NoType
Instantiation(q, Index, Type, PackTypes) ==
    [q |-> q, Index |-> Index, Type |-> Type, PackTypes |-> PackTypes]

\* the specialisation selected for an instantiation
RuleOf(I) ==
    CASE I.q = "At" -> At_native_rule(I.Index, I.PackTypes)
      [] I.q = "Has" -> Has_native_rule(I.Type, I.PackTypes)
      [] I.q = "Find" -> _Find_native_rule(I.Index, I.Type, I.PackTypes)
      [] I.q = "Unique" -> Unique_native_rule(I.PackTypes)

\* At_native<Index, Head, Tail...> : At_native<Index - 1, Tail...>
At_native_bases(Index, PackTypes) ==
    <<Instantiation("At", SizeT(Index - 1), NoType, Tail(PackTypes))>>

\* Has_native<Type, Head, Tail...> : Has_native<Type, Tail...>
Has_native_bases(Type, PackTypes) ==
    <<Instantiation("Has", 0, Type, Tail(PackTypes))>>

\* _Find_native<Counter, Type, Head, Tail...>
\*     : _Find_native<Counter + 1, Type, Tail...>
_Find_native_bases(Counter, Type, PackTypes) ==
    <<Instantiation("Find", SizeT(Counter + 1), Type, Tail(PackTypes))>>

\* faulty variant: the second base swaps the leading pair instead of
\* dropping TypeA, Unique_native<TypeB, TypeA, Rest...>
Unique_native_bases_swapped(PackTypes) ==
    <<Instantiation("Unique", 0, NoType, <<PackTypes[1]>> \o Rest(PackTypes)),
      Instantiation("Unique", 0, NoType,
                    <<PackTypes[2], PackTypes[1]>> \o Rest(PackTypes))>>

\* Unique_native<TypeA, TypeB, Rest...>
\*     : Unique_native<TypeA, Rest...>, Unique_native<TypeB, Rest...>
Unique_native_bases(PackTypes) ==
    <<Instantiation("Unique", 0, NoType, <<PackTypes[1]>> \o Rest(PackTypes)),
      Instantiation("Unique", 0, NoType, <<PackTypes[2]>> \o Rest(PackTypes))>>

(***************************************************************************)
(* State.                                                                  *)
(***************************************************************************)
VARIABLES
    subject,    \* the type the translation unit names
    trait,      \* the trait instantiated on it, "none" before
    form,       \* "wrapped" (takes the Pack), "native" (takes the list),
                \* "wrapped_s" / "native_s" (the earlier snapshot),
                \* "member" (a member of core Pack), "member_s" / "element_s"
                \* (a member of the earlier Pack / of PackElement)
    index,      \* the Index argument of At, TypeAt, PackAt and PackElement;
                \* the number of ::Base steps of a member read
    type,       \* the Type argument of Has and Find
    out,        \* what reading ::Value / ::Type gave
    work        \* the instantiations still to be completed, when the
                \* resolution of a trait is followed one instantiation at a
                \* time; the one being instantiated first

vars == <<subject, trait, form, index, type, out, work>>

Init ==
    /\ subject \in Subjects
    /\ trait = "none"
    /\ form = "none"
    /\ index = 0
    /\ type = NoType
    /\ out = NoOutcome
    /\ work = <<>>

\* every trait is resolved once, on the type as named; nothing changes the
\* named type
Instantiate(t, f, i, x, o) ==
    /\ trait = "none"
    /\ trait' = t
    /\ form' = f
    /\ index' = i
    /\ type' = x
    /\ out' = o
    /\ UNCHANGED <<subject, work>>

\* the list a native form is given: the one the Pack was named with
IsNamedPack == subject.tmpl = "Pack"

IsPack_v == Instantiate("IsPack", "wrapped", 0, NoType, IsPack(subject))

Size_v == Instantiate("Size", "wrapped", 0, NoType, Size(subject))

Size_native_v ==
    /\ IsNamedPack
    /\ Instantiate("Size", "native", 0, NoType, Size_native(subject.args))

At_t ==
    \E Index \in Indices :
        Instantiate("At", "wrapped", Index, NoType, At(Index, subject))

At_native_t ==
    \E Index \in Indices :
        /\ IsNamedPack
        /\ Instantiate("At", "native", Index, NoType, At_native(Index, subject.args))

Has_v ==
    \E Type \in QueryTokens :
        Instantiate("Has", "wrapped", 0, Type, Has(Type, subject))

Has_native_v ==
    \E Type \in QueryTokens :
        /\ IsNamedPack
        /\ Instantiate("Has", "native", 0, Type, Has_native(Type, subject.args))

Find_v ==
    \E Type \in QueryTokens :
        Instantiate("Find", "wrapped", 0, Type, Find(Type, subject))

Find_native_v ==
    \E Type \in QueryTokens :
        /\ IsNamedPack
        /\ Instantiate("Find", "native", 0, Type, Find_native(Type, subject.args))

Unique_v == Instantiate("Unique", "wrapped", 0, NoType, Unique(subject))

Unique_native_v ==
    /\ IsNamedPack
    /\ Instantiate("Unique", "native", 0, NoType, Unique_native(subject.args))

\* PackAlgorithms.h:88-89  using At = At_s<Index, Pack_t>::Type
PackAlgorithms_At ==
    \E Index \in Indices :
        Instantiate("At", "wrapped_s", Index, NoType, At_s(Index, subject))

\* PackAlgorithms.h:96-97  using At_native = At_native_s<Index, List_ts...>::Type
PackAlgorithms_At_native ==
    \E Index \in Indices :
        /\ IsNamedPack
        /\ Instantiate("At", "native_s", Index, NoType, At_native_s(Index, subject.args))

\* the numbers of ::Base steps a client writes before the member it reads
BaseSteps == 0 .. MaxLen

\* core/Pack.h: Pack::Base:: ... ::Type, index counts the Base steps
Read_Pack_Type ==
    \E n \in BaseSteps :
        /\ IsNamedPack
        /\ Instantiate("Type", "member", n, NoType, Pack_Base_times_Type(n, subject))

\* core/Pack.h: Pack::Base:: ... ::Base, index counts the Base steps
Read_Pack_Base ==
    \E n \in BaseSteps :
        /\ IsNamedPack
        /\ Instantiate("Base", "member", n + 1, NoType, Pack_Base_times(n + 1, subject))

\* include/Pack.h: Pack::Base:: ... ::Type
Read_Pack_s_Type ==
    \E n \in BaseSteps :
        /\ IsNamedPack
        /\ Instantiate("Type", "member_s", n, NoType, Pack_s_Base_times_Type(n, subject))

\* include/Pack.h: Pack::Base:: ... ::Base
Read_Pack_s_Base ==
    \E n \in BaseSteps :
        /\ IsNamedPack
        /\ Instantiate("Base", "member_s", n + 1, NoType, Pack_s_Base_times(n + 1, subject))

\* include/Pack.h: Pack::BaseType
Read_Pack_s_BaseType ==
    /\ IsNamedPack
    /\ Instantiate("BaseType", "member_s", 0, NoType, Pack_s_BaseType(subject))

\* include/Pack.h: Pack::TypeAt<N>
Read_Pack_s_TypeAt ==
    \E N \in Indices :
        /\ IsNamedPack
        /\ Instantiate("TypeAt", "member_s", N, NoType, Pack_s_TypeAt(N, subject))

\* include/Pack.h: Pack::PackAt<N>
Read_Pack_s_PackAt ==
    \E N \in Indices :
        /\ IsNamedPack
        /\ Instantiate("PackAt", "member_s", N, NoType, Pack_s_PackAt(N, subject))

\* include/Pack.h: PackElement<N, P>::CurrentType
Read_PackElement_CurrentType ==
    \E N \in Indices :
        /\ IsNamedPack
        /\ Instantiate("CurrentType", "element_s", N, NoType,
                       PackElement_CurrentType(N, subject.args))

\* include/Pack.h: PackElement<N, P>::CurrentPack
Read_PackElement_CurrentPack ==
    \E N \in Indices :
        /\ IsNamedPack
        /\ Instantiate("CurrentPack", "element_s", N, NoType,
                       PackElement_CurrentPack(N, subject.args))

Next ==
    \/ IsPack_v
    \/ Size_v
    \/ Size_native_v
    \/ At_t
    \/ At_native_t
    \/ Has_v
    \/ Has_native_v
    \/ Find_v
    \/ Find_native_v
    \/ Unique_v
    \/ Unique_native_v
    \/ PackAlgorithms_At
    \/ PackAlgorithms_At_native
    \/ Read_Pack_Type
    \/ Read_Pack_Base
    \/ Read_Pack_s_Type
    \/ Read_Pack_s_Base
    \/ Read_Pack_s_BaseType
    \/ Read_Pack_s_TypeAt
    \/ Read_Pack_s_PackAt
    \/ Read_PackElement_CurrentType
    \/ Read_PackElement_CurrentPack

(***************************************************************************)
(* The same traits on long Packs over two types, up to the largest Size    *)
(* a size_t of IndexBits bits can count.                                   *)
(***************************************************************************)
LongTokens == {t_int, t_char}

RECURSIVE LongListsUpTo(_)
LongListsUpTo(n) ==
    IF n = 0 THEN {<<>>}
    ELSE LET shorter == LongListsUpTo(n - 1)
         IN  shorter \cup {<<t>> \o l : t \in LongTokens,
                                        l \in {s \in shorter : Len(s) = n - 1}}

\* a parameter pack has at most as many elements as size_t can count
LongLists == {l \in LongListsUpTo(MaxLongLen) : Len(l) <= NotFound}

InitLong ==
    /\ subject \in {Pack(l) : l \in LongLists}
    /\ trait = "none"
    /\ form = "none"
    /\ index = 0
    /\ type = NoType
    /\ out = NoOutcome
    /\ work = <<>>

SpecLong == InitLong /\ [][Next]_vars

Spec == Init /\ [][Next]_vars

(***************************************************************************)
(* The resolution of At, Has, Find and Unique followed one instantiation   *)
(* at a time.  Instantiating a class template instantiates its base        *)
(* classes, so a recursive case puts the instantiations it inherits from   *)
(* in front of the work and a base case completes one.                     *)
(***************************************************************************)
StepTokens == {t_int, t_intL, t_char}

StepLists == {l \in TokenLists : \A k \in 1 .. Len(l) : l[k] \in StepTokens}

InitSteps ==
    /\ subject \in {Pack(l) : l \in StepLists}
    /\ trait = "none"
    /\ form = "none"
    /\ index = 0
    /\ type = NoType
    /\ out = NoOutcome
    /\ work = <<>>

\* the trait is named on the Pack: its wrapper forwards the list to the
\* native form, the first instantiation to complete
Begin(q, i, x, o) ==
    /\ trait = "none"
    /\ trait' = q
    /\ form' = "steps"
    /\ index' = i
    /\ type' = x
    /\ out' = o
    /\ work' = <<Instantiation(q, i, x, subject.args)>>
    /\ UNCHANGED subject

Begin_At == \E i \in Indices : Begin("At", i, NoType, NoOutcome)

Begin_Has == \E x \in StepTokens : Begin("Has", 0, x, NoOutcome)

\* Find_native starts the Counter at 0
Begin_Find == \E x \in StepTokens : Begin("Find", 0, x, NoOutcome)

\* Value of the recursive case is the conjunction of its bases' Values:
\* true until a base gives false
Begin_Unique == Begin("Unique", 0, NoType, BoolOf(TRUE))

\* the instantiation in front has the given trait and selected rule
InFront(q, rules) ==
    /\ work # <<>>
    /\ Head(work).q = q
    /\ RuleOf(Head(work)) \in rules

\* a recursive case: its bases are instantiated in its place
Inherit(bases) ==
    /\ work' = bases \o Tail(work)
    /\ UNCHANGED <<subject, trait, form, index, type, out>>

\* a base case: the instantiation is complete and gives its member
Complete(o) ==
    /\ work' = Tail(work)
    /\ out' = o
    /\ UNCHANGED <<subject, trait, form, index, type>>

At_native_recursive ==
    /\ InFront("At", {"recursive"})
    /\ Inherit(At_native_bases(Head(work).Index, Head(work).PackTypes))

At_native_found ==
    /\ InFront("At", {"found"})
    /\ Complete(TypeOf(Head(Head(work).PackTypes)))

At_native_out_of_bounds ==
    /\ InFront("At", {"out of bounds"})
    /\ Complete(At_native(Head(work).Index, <<>>))

Has_native_recursive ==
    /\ InFront("Has", {"recursive"})
    /\ Inherit(Has_native_bases(Head(work).Type, Head(work).PackTypes))

Has_native_found ==
    /\ InFront("Has", {"found"})
    /\ Complete(BoolOf(TRUE))

Has_native_not_found ==
    /\ InFront("Has", {"not found"})
    /\ Complete(BoolOf(FALSE))

_Find_native_recursive ==
    /\ InFront("Find", {"recursive"})
    /\ Inherit(_Find_native_bases(Head(work).Index, Head(work).Type,
                                  Head(work).PackTypes))

_Find_native_found ==
    /\ InFront("Find", {"found"})
    /\ Complete(ValueOf(Head(work).Index))

_Find_native_not_found ==
    /\ InFront("Find", {"not found"})
    /\ Complete(ValueOf(NotFound))

Unique_native_recursive ==
    /\ InFront("Unique", {"recursive"})
    /\ Inherit(Unique_native_bases(Head(work).PackTypes))

Unique_native_unique ==
    /\ InFront("Unique", {"unique (empty)", "unique (single)"})
    /\ Complete(out)

Unique_native_not_unique ==
    /\ InFront("Unique", {"not unique"})
    /\ Complete(BoolOf(FALSE))

NextSteps ==
    \/ Begin_At
    \/ Begin_Has
    \/ Begin_Find
    \/ Begin_Unique
    \/ At_native_recursive
    \/ At_native_found
    \/ At_native_out_of_bounds
    \/ Has_native_recursive
    \/ Has_native_found
    \/ Has_native_not_found
    \/ _Find_native_recursive
    \/ _Find_native_found
    \/ _Find_native_not_found
    \/ Unique_native_recursive
    \/ Unique_native_unique
    \/ Unique_native_not_unique

\* the compiler goes on instantiating as long as an instantiation is pending
SpecSteps == InitSteps /\ [][NextSteps]_vars /\ WF_vars(NextSteps)

\* the state types
TypeOK ==
    /\ subject \in Subjects
    /\ trait \in {"none", "IsPack", "Size", "At", "Has", "Find", "Unique",
                 "Type", "Base", "BaseType", "TypeAt", "PackAt",
                 "CurrentType", "CurrentPack"}
    /\ form \in {"none", "wrapped", "native", "wrapped_s", "native_s",
                "member", "member_s", "element_s"}
    /\ index \in Indices
    /\ type \in QueryTokens \cup {NoType}
    /\ out.kind \in {"none", "size_t", "bool", "Type", "error"}
    /\ work = <<>>

(***************************************************************************)
(* Vocabulary of the properties.                                           *)
(***************************************************************************)
\* the token list of the named Pack
Tokens == subject.args

\* the positions (0-based) of a list that hold exactly the token x
PositionsOf(x, l) == {i \in 0 .. (Len(l) - 1) : l[i + 1] = x}

\* the least element of a non-empty set of naturals
Least(S) == CHOOSE i \in S : \A j \in S : i <= j

\* a trait of core/Traits.h was instantiated on a Pack
OnPack(t) == trait = t /\ IsNamedPack /\ form \in {"wrapped", "native"}

\* the earlier snapshot's At was instantiated on a Pack
OnPack_s(t) == trait = t /\ IsNamedPack /\ form \in {"wrapped_s", "native_s"}

(***************************************************************************)
(* C1: for a Pack of size k >= 1 and an index i < k, At / At_native gives  *)
(* exactly the token the Pack was named with at position i.                *)
(***************************************************************************)
C1_AtInRange ==
    (OnPack("At") /\ Len(Tokens) >= 1 /\ index < Len(Tokens))
        => out = TypeOf(Tokens[index + 1])

\* At<2, Pack<int, int&, int&&>>::Type is int&&
C1_Witness ==
    /\ OnPack("At")
    /\ Tokens = <<t_int, t_intL, t_intR>>
    /\ index = 2
    /\ out = TypeOf(t_intR)

(***************************************************************************)
(* C2: for a Pack of size k >= 1 and an index N with k <= N <= max,        *)
(* At fails to build: no token and no sentinel type comes out, the         *)
(* out-of-bounds static_assert fires, and the descent subtracts 1 only     *)
(* from a non-zero index, ending at N - k without wrapping.                *)
(***************************************************************************)
C2_AtOutOfRange ==
    /\ (OnPack("At") /\ Len(Tokens) >= 1 /\ index >= Len(Tokens))
          => /\ out.kind = "error"
             /\ out.Type = NoType
             /\ "static_assert" \in out.errors
             /\ LET chain == At_native_chain(index, Tokens)
                IN  /\ Len(chain) = Len(Tokens) + 1
                    /\ \A n \in 1 .. Len(chain) :
                          /\ chain[n].Index = index - (n - 1)
                          /\ chain[n].rule = "recursive" => chain[n].Index > 0
                    /\ chain[Len(chain)].rule = "out of bounds"
                    /\ chain[Len(chain)].Index # NotFound
    /\ (OnPack_s("At") /\ Len(Tokens) >= 1 /\ index >= Len(Tokens))
          => /\ out.kind = "error"
             /\ out.Type = NoType
             /\ "static_assert" \in out.errors

\* At<max, Pack<int, int&, int&&>> does not build
C2_Witness ==
    /\ OnPack("At")
    /\ Tokens = <<t_int, t_intL, t_intR>>
    /\ index = NotFound
    /\ out.kind = "error"

(***************************************************************************)
(* C3: Find gives the smallest index whose token is identical to the       *)
(* query, and NotFound when no position holds it (always so on the empty   *)
(* Pack).                                                                  *)
(***************************************************************************)
C3_FindFirst ==
    OnPack("Find")
        => out = IF PositionsOf(type, Tokens) = {}
                 THEN ValueOf(NotFound)
                 ELSE ValueOf(Least(PositionsOf(type, Tokens)))

\* Find<int, Pack<char, int&, int, int>> is 2: the first of two matches
C3_Witness ==
    /\ OnPack("Find")
    /\ Tokens = <<t_char, t_intL, t_int, t_int>>
    /\ type = t_int
    /\ out = ValueOf(2)

(***************************************************************************)
(* C4: Has is true exactly when some position holds a token identical to   *)
(* the query; a reference-qualified variant does not count, and the empty  *)
(* Pack has nothing, void included.                                        *)
(***************************************************************************)
C4_HasExact ==
    OnPack("Has") => out = BoolOf(PositionsOf(type, Tokens) # {})

\* Has<int, Pack<char, int&>> is false: int& is not int
C4_Witness ==
    /\ OnPack("Has")
    /\ Tokens = <<t_char, t_intL>>
    /\ type = t_int
    /\ out = BoolOf(FALSE)

(***************************************************************************)
(* C5: Has(X, S) is true iff Find(X, S) is not NotFound, and then          *)
(* At(Find(X, S), S) builds and is X.                                      *)
(***************************************************************************)
C5_HasFindAt ==
    (IsNamedPack /\ trait \in {"Has", "Find"} /\ form \in {"wrapped", "native"})
        => LET has  == IF trait = "Has" THEN out ELSE Has(type, subject)
               find == IF trait = "Find" THEN out ELSE Find(type, subject)
           IN  /\ has.kind = "bool"
               /\ find.kind = "size_t"
               /\ has.Bool <=> (find.Value # NotFound)
               /\ has.Bool => At(find.Value, subject) = TypeOf(type)

\* Has<int&, Pack<char, int, int&>> is true, Find gives 2 and At<2> is int&
C5_Witness ==
    /\ OnPack("Has")
    /\ Tokens = <<t_char, t_int, t_intL>>
    /\ type = t_intL
    /\ out = BoolOf(TRUE)
    /\ Find(type, subject) = ValueOf(2)

(***************************************************************************)
(* C6: Unique is true exactly when no token occurs at two different        *)
(* positions: true for the empty and the one-token Pack, false for any     *)
(* duplicate, adjacent or not.                                             *)
(***************************************************************************)
C6_UniqueIffNoDuplicate ==
    OnPack("Unique")
        => out = BoolOf(\A i, j \in 1 .. Len(Tokens) :
                            Tokens[i] = Tokens[j] => i = j)

\* the duplicate sits only at the first and the last position
C6_Witness ==
    /\ OnPack("Unique")
    /\ Tokens = <<t_int, t_char, t_intL, t_int>>
    /\ out = BoolOf(FALSE)

(***************************************************************************)
(* C7: Unique gives the same answer on every reordering of the tokens.     *)
(***************************************************************************)
\* the reorderings of a list
Reorderings(l) ==
    {[i \in 1 .. Len(l) |-> l[p[i]]] :
        p \in {q \in [1 .. Len(l) -> 1 .. Len(l)] :
                  \A a, b \in 1 .. Len(l) : q[a] = q[b] => a = b}}

C7_UniquePermutation ==
    OnPack("Unique")
        => \A l \in Reorderings(Tokens) :
              /\ Unique(Pack(l)) = out
              /\ Unique_native(l) = out

\* a non-unique Pack whose reorderings put the duplicate anywhere
C7_Witness ==
    /\ OnPack("Unique")
    /\ Tokens = <<t_int, t_char, t_int, t_intL>>
    /\ out = BoolOf(FALSE)

(***************************************************************************)
(* C8: on the same token list the wrapped form (on the Pack) and the       *)
(* native form (on the list) of Size, At, Has, Find and Unique give the    *)
(* same outcome: the same value, the same token or the same failure.       *)
(***************************************************************************)
WrappedOutcome ==
    CASE trait = "Size" -> Size(Pack(Tokens))
      [] trait = "At" -> At(index, Pack(Tokens))
      [] trait = "Has" -> Has(type, Pack(Tokens))
      [] trait = "Find" -> Find(type, Pack(Tokens))
      [] trait = "Unique" -> Unique(Pack(Tokens))

NativeOutcome ==
    CASE trait = "Size" -> Size_native(Tokens)
      [] trait = "At" -> At_native(index, Tokens)
      [] trait = "Has" -> Has_native(type, Tokens)
      [] trait = "Find" -> Find_native(type, Tokens)
      [] trait = "Unique" -> Unique_native(Tokens)

C8_WrappedEqualsNative ==
    (IsNamedPack /\ trait \in {"Size", "At", "Has", "Find", "Unique"})
        => /\ form = "wrapped" => out = NativeOutcome
           /\ form = "native" => out = WrappedOutcome

\* the wrapped At fails out of range as the native one does
C8_Witness ==
    /\ OnPack("At")
    /\ form = "wrapped"
    /\ Tokens = <<t_int, t_intL>>
    /\ index = 2
    /\ out.kind = "error"
    /\ out = At_native(2, <<t_int, t_intL>>)

(***************************************************************************)
(* C9: Size of a Pack named with k tokens is k (k = 0, repeated and        *)
(* reference-qualified tokens included), and agrees with the structural    *)
(* count Size(Empty) = 0, Size(Node(Head, Tail)) = 1 + Size(Tail).         *)
(***************************************************************************)
RECURSIVE NodeLayers(_)
NodeLayers(l) == IF l = <<>> THEN 0 ELSE 1 + NodeLayers(Tail(l))

C9_SizeIsCount ==
    OnPack("Size")
        => /\ out = ValueOf(NodeLayers(Tokens))
           /\ out.Value = Cardinality(DOMAIN Tokens)
           /\ Tokens # <<>> => out.Value = 1 + Size_native(Tail(Tokens)).Value

\* a Pack with a repeated and a reference-qualified token
C9_Witness ==
    /\ OnPack("Size")
    /\ Tokens = <<t_int, t_int, t_intL, t_intR>>
    /\ out = ValueOf(4)

(***************************************************************************)
(* C10: IsPack is true exactly for a Pack<...> (the empty one included)    *)
(* and false for a plain type and for another variadic template holding    *)
(* the same token list.                                                    *)
(***************************************************************************)
C10_IsPack ==
    trait = "IsPack" => out = BoolOf(subject \in {Pack(l) : l \in TokenLists})

\* IsPack<NotAPack<char, int, int&, int&&>> is false
C10_Witness ==
    /\ trait = "IsPack"
    /\ subject = NotAPack(<<t_char, t_int, t_intL, t_intR>>)
    /\ out = BoolOf(FALSE)

(***************************************************************************)
(* C11: on every Pack (the empty one included) Has, Find and Unique give   *)
(* a value, false or NotFound when the answer is absence, and never fail   *)
(* to build; of the queries only At can fail, and only with an index that  *)
(* is out of range.                                                        *)
(***************************************************************************)
C11_TotalQueries ==
    /\ OnPack("Has") => out.kind = "bool" /\ out.errors = {}
    /\ OnPack("Find") => out.kind = "size_t" /\ out.errors = {}
    /\ OnPack("Unique") => out.kind = "bool" /\ out.errors = {}
    /\ (OnPack("Has") /\ PositionsOf(type, Tokens) = {}) => out = BoolOf(FALSE)
    /\ (OnPack("Find") /\ PositionsOf(type, Tokens) = {}) => out = ValueOf(NotFound)
    /\ (IsNamedPack /\ form \in {"wrapped", "native"} /\ out.kind = "error")
          => trait = "At" /\ index >= Len(Tokens)

\* Has<void, Pack<>> is false, not a failure
C11_Witness ==
    /\ OnPack("Has")
    /\ Tokens = <<>>
    /\ type = t_void
    /\ out = BoolOf(FALSE)

(***************************************************************************)
(* C12: At on the empty Pack is refused by the out-of-bounds               *)
(* static_assert for every index the index type holds, from 0 up to and    *)
(* including its maximum (the value of NotFound); no index passes the      *)
(* assertion of the empty base case.                                       *)
(***************************************************************************)
C12_EmptyAlwaysRefused ==
    (OnPack("At") /\ Tokens = <<>>)
        => /\ out.kind = "error"
           /\ "static_assert" \in out.errors

(***************************************************************************)
(* C13: At asserts the out-of-range condition at every recursive step:     *)
(* for N >= Size(S) on a non-empty S the failing assertion is that of the  *)
(* first step, on the full Pack, before any element is peeled off, and     *)
(* not only that of the empty base case.                                   *)
(***************************************************************************)
\* the steps whose static_assert fails, in the lookup just made
FailedSteps ==
    CASE form \in {"wrapped", "native"} -> At_native_failed(index, Tokens)
      [] form \in {"wrapped_s", "native_s"} -> At_native_s_failed(index, Tokens)
      [] form \in {"member_s", "element_s"} -> PackElement_failed(index, Tokens)

\* a positional lookup was made on a Pack
IsLookup ==
    /\ IsNamedPack
    /\ \/ trait = "At"
       \/ trait \in {"TypeAt", "PackAt", "CurrentType", "CurrentPack"}

C13_AssertAtFirstStep ==
    (IsLookup /\ Len(Tokens) >= 1 /\ index >= Len(Tokens))
        => 1 \in FailedSteps

(***************************************************************************)
(* C14: on a Pack of 2 or more tokens the recursion of Unique_native       *)
(* (first two tokens differ, and Unique of the first token followed by     *)
(* the rest, and Unique of the second token followed by the rest) gives    *)
(* the same boolean as the four-part rule (a) the first two tokens         *)
(* differ, (b) the first does not recur in the rest, (c) the second does   *)
(* not recur in the rest, (d) the Pack without its first token is unique;  *)
(* and the same boolean as a single pass that keeps a set of seen tokens.  *)
(***************************************************************************)
\* the tokens of a list, as a set
Elements(l) == {l[i] : i \in 1 .. Len(l)}

\* one pass over the list, remembering the tokens seen so far
RECURSIVE SeenSetUnique(_, _)
SeenSetUnique(l, seen) ==
    IF l = <<>> THEN TRUE
    ELSE IF Head(l) \in seen THEN FALSE
    ELSE SeenSetUnique(Tail(l), seen \cup {Head(l)})

FourPartUnique(l) ==
    /\ l[1] # l[2]
    /\ l[1] \notin Elements(Rest(l))
    /\ l[2] \notin Elements(Rest(l))
    /\ Unique_native(Tail(l)) = BoolOf(TRUE)

C14_UniqueRecursionForms ==
    (OnPack("Unique") /\ Len(Tokens) >= 2)
        => /\ out = BoolOf(FourPartUnique(Tokens))
           /\ out = BoolOf(SeenSetUnique(Tokens, {}))
           /\ out = BoolOf(/\ Tokens[1] # Tokens[2]
                           /\ Unique_native(<<Tokens[1]>> \o Rest(Tokens)).Bool
                           /\ Unique_native(<<Tokens[2]>> \o Rest(Tokens)).Bool)

\* (a), (b) and (d) hold and (c) fails: the second token recurs in the rest
C14_Witness ==
    /\ OnPack("Unique")
    /\ Tokens = <<t_char, t_int, t_intL, t_int>>
    /\ out = BoolOf(FALSE)

(***************************************************************************)
(* C15: Has and Find stop descending at the first Head identical to the    *)
(* query: with the first match at position i, exactly the tokens at        *)
(* positions 0..i are compared with it, no later token is visited, and     *)
(* what follows position i (later duplicates included) does not change     *)
(* the result.                                                             *)
(***************************************************************************)
\* the instantiations made by the Has or Find just evaluated
SearchChain ==
    IF trait = "Has" THEN Has_native_chain(type, Tokens)
                     ELSE _Find_native_chain(0, type, Tokens)

\* the same query on the Pack cut off after position i
SearchUpTo(i) ==
    IF trait = "Has" THEN Has(type, Pack(SubSeq(Tokens, 1, i + 1)))
                     ELSE Find(type, Pack(SubSeq(Tokens, 1, i + 1)))

C15_ShortCircuit ==
    ((OnPack("Has") \/ OnPack("Find")) /\ PositionsOf(type, Tokens) # {})
        => LET i == Least(PositionsOf(type, Tokens))
               chain == SearchChain
           IN  /\ Len(chain) = i + 1
               /\ \A n \in 1 .. Len(chain) :
                     \* step n compares the query with the token at n - 1
                     /\ chain[n].PackTypes = SubSeq(Tokens, n, Len(Tokens))
                     /\ chain[n].rule = IF n = i + 1 THEN "found" ELSE "recursive"
               /\ out = SearchUpTo(i)

\* the second int, at position 3, is never visited
C15_Witness ==
    /\ OnPack("Find")
    /\ Tokens = <<t_char, t_int, t_intL, t_int>>
    /\ type = t_int
    /\ out = ValueOf(1)
    /\ Len(SearchChain) = 2

(***************************************************************************)
(* C16: reading the Head (Type) or the Tail (Base) of the empty Pack is    *)
(* rejected: the empty Pack has neither, so no token, not even a void      *)
(* placeholder, comes out as its Head; the same holds when the empty Pack  *)
(* is reached as the Base of a one-token Pack (or after more Base steps).  *)
(***************************************************************************)
\* the member read just made was applied to the empty Pack
ReadsOfEmpty ==
    /\ IsNamedPack
    /\ form \in {"member", "member_s"}
    /\ \/ trait = "Type" /\ index = Len(Tokens)
       \/ trait = "Base" /\ index = Len(Tokens) + 1
       \/ trait = "BaseType" /\ Len(Tokens) = 1

C16_EmptyHasNoHeadNorTail ==
    ReadsOfEmpty => out.kind = "error" /\ out.Type = NoType

(***************************************************************************)
(* C17: for a Pack S named with T0..Tk-1, k >= 1: the Head of S is T0;     *)
(* the Tail of S is the Pack of T1..Tk-1, of Size k - 1; for i < k,        *)
(* At(i, S) is the Head of the Pack reached by taking the Tail i times;    *)
(* and the positional reference at i has that i-fold Tail as its current   *)
(* pack and the Head of it as its current type.                            *)
(***************************************************************************)
\* the Pack of the tokens from position i on
Suffix(i) == Pack(SubSeq(Tokens, i + 1, Len(Tokens)))

C17_HeadTailPosition ==
    (IsNamedPack /\ Len(Tokens) >= 1)
        => /\ (trait = "Type" /\ form \in {"member", "member_s"} /\ index < Len(Tokens))
                 => /\ out = TypeOf(Tokens[index + 1])
                    /\ out = At(index, subject)
           /\ (trait = "Base" /\ form \in {"member", "member_s"} /\ index <= Len(Tokens))
                 => /\ out = TypeOf(Suffix(index))
                    /\ Size(out.Type) = ValueOf(Len(Tokens) - index)
           /\ (OnPack("At") /\ index < Len(Tokens))
                 => /\ out = Pack_Base_times_Type(index, subject)
                    /\ out = Pack_Type(Suffix(index))
           /\ (trait \in {"CurrentPack", "PackAt"} /\ index < Len(Tokens))
                 => /\ out = TypeOf(Suffix(index))
                    /\ out = Pack_s_Base_times(index, subject)
           /\ (trait \in {"CurrentType", "TypeAt"} /\ index < Len(Tokens))
                 => /\ out = Pack_s_Type(Suffix(index))
                    /\ out = TypeOf(Tokens[index + 1])

\* Pack<int, int&, int&&>::Base::Base is Pack<int&&>
C17_Witness ==
    /\ trait = "Base"
    /\ form = "member"
    /\ Tokens = <<t_int, t_intL, t_intR>>
    /\ index = 2
    /\ out = TypeOf(Pack(<<t_intR>>))

(***************************************************************************)
(* C18: with an index type of w bits (NotFound = 2^w - 1), on every Pack   *)
(* of Size <= 2^w - 1 and for every token that occurs in it, the running   *)
(* counter of Find never overflows and Find is strictly less than Size,    *)
(* so never NotFound: a present token is never reported absent.            *)
(***************************************************************************)
C18_FindBelowNotFound ==
    (OnPack("Find") /\ Len(Tokens) <= NotFound /\ PositionsOf(type, Tokens) # {})
        => LET chain == _Find_native_chain(0, type, Tokens)
           IN  /\ out.kind = "size_t"
               /\ out.Value < Len(Tokens)
               /\ out.Value # NotFound
               /\ out.Value \in PositionsOf(type, Tokens)
               /\ \A n \in 1 .. Len(chain) :
                     \* the counter of step n is n - 1, never wrapped
                     /\ chain[n].Counter = n - 1
                     /\ chain[n].Counter < NotFound

\* the largest Pack the index type allows, the token only at its last
\* position: Find is NotFound - 1
C18_Witness ==
    /\ OnPack("Find")
    /\ Len(Tokens) = NotFound
    /\ PositionsOf(type, Tokens) = {NotFound - 1}
    /\ out = ValueOf(NotFound - 1)

(***************************************************************************)
(* C19: Unique(S) is true exactly when Find(At(i, S), S) = i for every     *)
(* index i < Size(S): every position is the first occurrence of its own    *)
(* token.                                                                  *)
(***************************************************************************)
\* position i of the named Pack is where Find first meets its token
IsFirstOccurrence(i) ==
    LET at == At(i, subject)
    IN  /\ at.kind = "Type"
        /\ Find(at.Type, subject) = ValueOf(i)

C19_UniqueIffFindAt ==
    OnPack("Unique")
        => /\ Size(subject) = ValueOf(Len(Tokens))
           /\ out = BoolOf(\A i \in 0 .. (Len(Tokens) - 1) : IsFirstOccurrence(i))

\* position 2 holds int, which Find meets first at position 0
C19_Witness ==
    /\ OnPack("Unique")
    /\ Tokens = <<t_int, t_char, t_int>>
    /\ out = BoolOf(FALSE)
    /\ IsFirstOccurrence(1)
    /\ ~IsFirstOccurrence(2)

(***************************************************************************)
(* C20: the case rules of each query are exhaustive and select one         *)
(* outcome.  On every argument list At_native, Has_native, _Find_native    *)
(* and Unique_native are instantiated on, at least one rule matches; two   *)
(* match only for At with index 0 on a non-empty list, and then the more   *)
(* specialised (found) one is taken; the found and the recursive rule of   *)
(* Has / Find, and the not-unique and the recursive rule of Unique, never  *)
(* match the same list.                                                    *)
(***************************************************************************)
\* the rule taken is a matching one that is more specialised than every
\* other matching one
Selected(rule, matches, more(_, _)) ==
    /\ rule \in matches
    /\ \A s \in matches \ {rule} : more(rule, s)

\* no rule is ranked above another: used where at most one may match
Unranked(r, s) == FALSE

C20_RulesExhaustiveDisjoint ==
    /\ OnPack("At") =>
          LET chain == At_native_chain(index, Tokens)
          IN  \A n \in 1 .. Len(chain) :
                LET m == At_native_matches(chain[n].Index, chain[n].PackTypes)
                IN  /\ m # {}
                    /\ Selected(chain[n].rule, m, At_native_more_specialised)
                    /\ Cardinality(m) = 2
                          <=> (chain[n].Index = 0 /\ chain[n].PackTypes # <<>>)
                    /\ Cardinality(m) = 2 => chain[n].rule = "found"
                    /\ Cardinality(m) <= 2
    /\ OnPack("Has") =>
          LET chain == Has_native_chain(type, Tokens)
          IN  \A n \in 1 .. Len(chain) :
                LET m == Has_native_matches(type, chain[n].PackTypes)
                IN  /\ m = {chain[n].rule}
                    /\ Selected(chain[n].rule, m, Unranked)
                    /\ ~({"found", "recursive"} \subseteq m)
    /\ OnPack("Find") =>
          LET chain == _Find_native_chain(0, type, Tokens)
          IN  \A n \in 1 .. Len(chain) :
                LET m == _Find_native_matches(chain[n].Counter, type,
                                              chain[n].PackTypes)
                IN  /\ m = {chain[n].rule}
                    /\ Selected(chain[n].rule, m, Unranked)
                    /\ ~({"found", "recursive"} \subseteq m)
    /\ OnPack("Unique") =>
          \A l \in Unique_native_instances(Tokens) :
              LET m == Unique_native_matches(l)
              IN  /\ m = {Unique_native_rule(l)}
                  /\ ~({"not unique", "recursive"} \subseteq m)

\* At<2, Pack<int, int&, int&&>>: its last step has index 0 on <int&&>,
\* where both the found and the recursive rule match and found is taken
C20_Witness ==
    /\ OnPack("At")
    /\ Tokens = <<t_int, t_intL, t_intR>>
    /\ index = 2
    /\ At_native_matches(0, <<t_intR>>) = {"found", "recursive"}
    /\ At_native_chain(index, Tokens)[3].rule = "found"
    /\ form = "native"

(***************************************************************************)
(* C21: every query terminates on every finite list.  Each instantiation   *)
(* a recursive case of At, Has, Find or Unique inherits from is on a list  *)
(* strictly shorter than its own, both bases of Unique included; an        *)
(* instantiation completes only in a base case (empty list, index zero, a  *)
(* match, a single type, two equal leading types); and once a trait is     *)
(* named, no instantiation stays pending for ever.                         *)
(***************************************************************************)
BaseRules == {"out of bounds", "found", "not found",
              "unique (empty)", "unique (single)", "not unique"}

Started == trait # "none"

Finished == trait # "none" /\ work = <<>>

\* the instantiations put in front of the work by the step, when there was
\* one in front before
StepShortens ==
    work # <<>> =>
        LET new == Len(work') - Len(work) + 1
        IN  /\ \A k \in 1 .. new :
                  Len(work'[k].PackTypes) < Len(Head(work).PackTypes)
            /\ new = 0 <=> RuleOf(Head(work)) \in BaseRules

\* the stepwise resolution ends with what the trait is defined to give
StepsAgree ==
    Finished =>
        out = CASE trait = "At" -> At(index, subject)
                [] trait = "Has" -> Has(type, subject)
                [] trait = "Find" -> Find(type, subject)
                [] trait = "Unique" -> Unique(subject)

C21_Terminates ==
    /\ [][StepShortens]_vars
    /\ []StepsAgree
    /\ Started ~> Finished

\* Unique on three different types has fanned out into both bases and
\* completed every instantiation
C21_Witness ==
    /\ Finished
    /\ trait = "Unique"
    /\ form = "steps"
    /\ Tokens = <<t_int, t_intL, t_char>>
    /\ out = BoolOf(TRUE)

====
